---------------------------- MODULE Spec2Model ----------------------------
(***************************************************************************)
(* Model of the sentinel-stream server (cmd/server, batched variant):      *)
(* the consumer goroutine that receives pub/sub messages, decodes them,    *)
(* batches points for InfluxDB and tracks two latency windows, together    *)
(* with the main goroutine that waits for SIGINT/SIGTERM and exits; and of  *)
(* the load generator (cmd/bench): its publisher goroutines and counter.   *)
(***************************************************************************)
EXTENDS Integers, Sequences, FiniteSets, TLC

(***************************************************************************)
(* Bounds of the model.                                                    *)
(***************************************************************************)
\* const influxBatchSize = 256 in the source; the loop is parametric in it
\* and the model runs it with a small capacity.
influxBatchSize == 2
\* The literal 1000 of the source (window capacity and summarization
\* threshold), scaled down like the batch capacity.
WindowSize == 3
\* Number of messages the transport delivers in one run.
MaxMsgs == 6
\* Longest batch handed to flushInfluxBatch when it is run on its own.
MaxFlushLen == 3
\* Longest window handed to printLatencyStats when it is run on its own.
MaxStatsLen == 11
\* Number of values of a byte (256 in the source) and of bytes in a 64-bit
\* word (8 in the source): the integer width, scaled down.
ByteBase == 16
WordBytes == 2
\* The factor 1e9 of flushInfluxBatch (seconds to nanoseconds), scaled down
\* with the integer width so that small timestamps fit and large ones do not.
NanosPerSecond == 10

\* The flag -workers of the load generator (32 by default).
NumWorkers == 2
\* Number of publishes the workers of the load generator call in one run.
MaxPublishes == 4

(***************************************************************************)
(* Inputs.                                                                 *)
(***************************************************************************)
\* A field of a payload: <<v>> when present with value v, <<>> when absent.
Absent == <<>>

\* A field of a JSON document whose value is not a number.
WrongType == <<0, "string">>

\* The number of values of a 64-bit word, and the signed range.
WordMod == ByteBase ^ WordBytes
MaxInt64 == WordMod - 1 - (WordMod \div 2)
MinInt64 == -(WordMod \div 2)

\* uint64(x) of an int64 x: the two's complement reinterpretation.
Uint64(x) == x % WordMod

\* int64(u) of a uint64 u.
Int64_Unsigned(u) == u

Int64(u) == IF u > MaxInt64 THEN u - WordMod ELSE u

\* math.Float64bits(f): sign bit and magnitude; a float is written here as
\* a signed number.
Float64bits(f) == IF f >= 0 THEN f ELSE (WordMod \div 2) + (-f)

\* math.Float64frombits(u).
Float64frombits(u) == IF u < WordMod \div 2 THEN u ELSE -(u - (WordMod \div 2))

\* binary.LittleEndian.PutUint64: the bytes of u, least significant first.
PutUint64(u) == [i \in 1..WordBytes |-> (u \div (ByteBase ^ (i - 1))) % ByteBase]

\* binary.LittleEndian.Uint64: the word the bytes b hold.
RECURSIVE LittleEndianUint64(_)
LittleEndianUint64(b) ==
    IF b = <<>> THEN 0 ELSE Head(b) + ByteBase * LittleEndianUint64(Tail(b))

\* The 32 bytes the load generator publishes: four little-endian words.
\* They are not a JSON document.
BinPayload(ts, cpu, mem, sent) ==
    [len |-> 32,
     words |-> <<PutUint64(Uint64(ts)), PutUint64(Float64bits(cpu)),
                 PutUint64(Float64bits(mem)), PutUint64(Uint64(sent))>>,
     valid |-> FALSE, timestamp |-> Absent, cpu_usage |-> Absent,
     mem_usage |-> Absent, send_time_unix_nano |-> Absent]

\* What the first 32 bytes of a text of n bytes hold when read as four
\* words: characters, not the values the text spells.
AsciiWords(n) ==
    IF n >= 32 THEN <<PutUint64(123), PutUint64(34), PutUint64(116), PutUint64(105)>>
    ELSE <<>>

\* A text payload of n bytes: a JSON document, well-formed or not, whose
\* fields are numbers, absent, or of another type.
TextPayload(n, ok, ts, cpu, mem, sent) ==
    [len |-> n, words |-> AsciiWords(n), valid |-> ok, timestamp |-> ts,
     cpu_usage |-> cpu, mem_usage |-> mem, send_time_unix_nano |-> sent]

\* The payloads the transport may deliver: two binary records of the load
\* generator, the JSON document of the agent (no send time), and a text
\* payload that is not a JSON document.
Payloads ==
    { BinPayload(1, 10, 20, 7),
      BinPayload(2, 11, 21, 9),
      TextPayload(70, TRUE, <<1>>, <<12>>, <<22>>, Absent),
      TextPayload(70, TRUE, WrongType, <<12>>, <<22>>, Absent),
      TextPayload(5, FALSE, Absent, Absent, Absent, Absent) }

\* No message is being processed.
NoMsg == TextPayload(0, FALSE, Absent, Absent, Absent, Absent)

\* What time.Since(recvAt) reads after the append, in nanoseconds: the
\* binary path is the faster one.
SinceRecv(p) == IF p.len = 32 THEN 1500 ELSE 2000

\* What time.Since(time.Unix(0, sendTimeNano)) reads, in nanoseconds: the
\* producer's clock may be ahead of the consumer's.
SinceSend(sent) == IF sent = 9 THEN -2500 ELSE 4200

\* What http.DefaultClient.Do returns: a transport error or a status code.
DoOutcomes == {<<"error", 0>>, <<"status", 204>>, <<"status", 500>>}

VARIABLES
    pc,              \* position of the consumer goroutine in its loop
    mainPc,          \* position of the main goroutine
    msg,             \* the payload received in this iteration
    sendTimeNano,    \* the local sendTimeNano of this iteration
    batch,           \* []batchPoint
    internalSamples, \* []time.Duration, internal latency window
    latencySamples,  \* []time.Duration, end-to-end latency window
    writeURLValid,   \* whether http.NewRequestWithContext accepts writeURL
    forwards,        \* history: the batches handed to flushInfluxBatch
    posts,           \* history: the HTTP POSTs issued, with their results
    statsLog,        \* history: the latency summary lines logged
    decoded,         \* history: the points decoded, in arrival order
    nReceived,       \* history: number of messages received
    nSumm,           \* history: number of summarizations
    errLog,          \* history: the error lines logged for a failed receive
    sentLog,         \* history: the send times decoded, in arrival order
    clockSkew,       \* how much later every clock reading of this run is
    pooledMetric,    \* the Metric that metricPool.Get() hands out
    metricsOut,      \* Metrics taken from metricPool and not yet put back
    buffersOut,      \* buffers taken from bufferPool and not yet put back
    workerPc,        \* load generator: position of each publisher goroutine
    attempts,        \* load generator: history, number of publishes called
    okPublishes,     \* load generator: history, publishes that returned nil, per worker
    totalSent,       \* load generator: the counter totalSent
    ctxDone,         \* load generator: ctx is done (timeout or cancel)
    benchPc,         \* load generator: position of its main goroutine
    progress,        \* load generator: the total of the last progress line
    finalTotal       \* load generator: the total of the final line

\* The variables of the load generator (cmd/bench), a program of its own.
benchVars == <<workerPc, attempts, okPublishes, totalSent, ctxDone, benchPc,
               progress, finalTotal>>

\* The variables of the server.
serverVars == <<pc, mainPc, msg, sendTimeNano, batch, internalSamples,
                latencySamples, writeURLValid, forwards, posts, statsLog, decoded,
                nReceived, nSumm, errLog, sentLog, clockSkew, pooledMetric,
                metricsOut, buffersOut>>

vars == <<pc, mainPc, msg, sendTimeNano, batch, internalSamples, latencySamples,
          writeURLValid, forwards, posts, statsLog, decoded, nReceived, nSumm, errLog,
          sentLog,
          clockSkew,
          pooledMetric,
          metricsOut,
          buffersOut,
          benchVars>>

\* The publisher goroutines of the load generator, -workers of them.
Workers == 1..NumWorkers

\* The load generator after its goroutines were started (lines 95-142):
\* every worker is at the top of its loop, nothing has been published.
BenchStart ==
    /\ workerPc = [w \in Workers |-> "select"]
    /\ attempts = 0
    /\ okPublishes = [w \in Workers |-> 0]
    /\ totalSent = 0
    /\ ctxDone = FALSE
    /\ benchPc = "loop"
    /\ progress = 0
    /\ finalTotal = 0

(***************************************************************************)
(* Record codec (consumer loop, decode).                                   *)
(***************************************************************************)
\* len(payload) == 32
IsBinary_AtLeast32(p) == p.len >= 32

IsBinary(p) == p.len = 32

\* jsoniter.Unmarshal(payload, m) returns an error: the text is not a JSON
\* document, or a field of Metric has a value that is not a number.
UnmarshalFails_RequireFields(p) ==
    \/ ~p.valid
    \/ \E f \in {p.timestamp, p.cpu_usage, p.mem_usage} : Len(f) # 1
    \/ p.send_time_unix_nano = WrongType

UnmarshalFails(p) ==
    \/ ~p.valid
    \/ \E f \in {p.timestamp, p.cpu_usage, p.mem_usage, p.send_time_unix_nano} :
         f = WrongType

\* The decode branch ends in `continue`.
DecodeFails_Never(p) == FALSE

DecodeFails(p) == ~IsBinary(p) /\ UnmarshalFails(p)

\* The binary branch: the four words at their fixed offsets.
DecodeBinary(p) ==
    [ts |-> Int64(LittleEndianUint64(p.words[1])),
     cpu |-> Float64frombits(LittleEndianUint64(p.words[2])),
     mem |-> Float64frombits(LittleEndianUint64(p.words[3])),
     sendTimeNano |-> Int64(LittleEndianUint64(p.words[4]))]

\* pool.Get() and pool.Put(x), on the number n of objects of the pool that
\* are out.
PoolGet(n) == n + 1

PoolPut(n) == n - 1

\* Metric{}: every field at its zero value; also what metricPool's New
\* returns when the pool has no object to reuse.
ZeroMetric == [ts |-> 0, cpu |-> 0, mem |-> 0, sendTimeNano |-> 0]

\* *m = Metric{}
ResetMetric_Keep(m) == m

ResetMetric(m) == ZeroMetric

\* The Metric m after jsoniter.Unmarshal(payload, m): a field the document
\* names with a number is overwritten, a field it does not name keeps what m
\* held, and reading stops at the first value that is not a number.  The
\* fields of a text that is not a document are the ones read before the
\* syntax error.
Unmarshal(p, m) ==
    LET fs == <<p.timestamp, p.cpu_usage, p.mem_usage, p.send_time_unix_nano>>
        bad == {i \in 1..4 : fs[i] = WrongType}
        stop == IF bad = {} THEN 5
                ELSE CHOOSE i \in bad : \A j \in bad : i <= j
        set(i, old) == IF i < stop /\ Len(fs[i]) = 1 THEN fs[i][1] ELSE old
    IN  [ts |-> set(1, m.ts), cpu |-> set(2, m.cpu), mem |-> set(3, m.mem),
         sendTimeNano |-> set(4, m.sendTimeNano)]

\* The text branch on the Metric m taken from the pool: reset, then filled.
DecodeInto(p, m) == Unmarshal(p, ResetMetric(m))

\* The text branch: the fields of the pooled Metric that Unmarshal filled.
DecodeText(p) == DecodeInto(p, pooledMetric)

\* metricPool.Put(m): the object goes back to the pool as the text branch
\* left it; the binary branch never touches the pool.
PutMetric(p) == IF IsBinary(p) THEN pooledMetric ELSE DecodeText(p)

\* ts, cpuUsage, memUsage, sendTimeNano of a payload that decodes.
DecodeMetric(p) == IF IsBinary(p) THEN DecodeBinary(p) ELSE DecodeText(p)

\* batchPoint{ts, cpu, mem}; id is the point's number in decode order, a
\* label of the history and not a field of the source's struct.
BatchPoint(m, n) == [ts |-> m.ts, cpu |-> m.cpu, mem |-> m.mem, id |-> n]

\* A point without its history label.
Plain(pt) == [ts |-> pt.ts, cpu |-> pt.cpu, mem |-> pt.mem]

PlainSeq(b) == [i \in 1..Len(b) |-> Plain(b[i])]

IdSeq(b) == [i \in 1..Len(b) |-> b[i].id]

(***************************************************************************)
(* Batch accumulator and sink forwarder.                                   *)
(***************************************************************************)
\* batch = append(batch, pt)
AppendPoint_Prepend(b, pt) == <<pt>> \o b

AppendPoint(b, pt) == Append(b, pt)

\* len(batch) >= influxBatchSize
BatchFull_Late(b) == Len(b) > influxBatchSize

BatchFull_Early(b) == Len(b) >= influxBatchSize - 1

BatchFull(b) == Len(b) >= influxBatchSize

\* batch = batch[:0]
ResetBatch_Keep(b) == b

ResetBatch(b) == <<>>

\* One line of line protocol: "system_stats cpu=%f,mem=%f %d\n".
\* The timestamp is tsNano := p.ts * 1e9, an int64 product that wraps.
TsNano(ts) == Int64((ts * NanosPerSecond) % WordMod)

Line(pt) == [cpu |-> pt.cpu, mem |-> pt.mem, tsNano |-> TsNano(pt.ts)]

\* The request body: one line per point, in batch order.
SerializeBatch(b) == [i \in 1..Len(b) |-> Line(b[i])]

\* The sink accepted the write: no transport error and status 204 or 200.
Accepted(r) == r[1] = "status" /\ r[2] \in {204, 200}

(***************************************************************************)
(* Latency tracker.                                                        *)
(***************************************************************************)
\* len(internalSamples) >= 1000
WindowFull_Late(s) == Len(s) > WindowSize

WindowFull(s) == Len(s) >= WindowSize

\* Insert d into the ascending sequence s.
RECURSIVE Insert(_, _)
Insert(d, s) ==
    IF s = <<>> THEN <<d>>
    ELSE IF d <= Head(s) THEN <<d>> \o s
    ELSE <<Head(s)>> \o Insert(d, Tail(s))

\* sort.Slice on a copy, ascending.
RECURSIVE SortAsc(_)
SortAsc(s) == IF s = <<>> THEN <<>> ELSE Insert(Head(s), SortAsc(Tail(s)))

\* int(math.Ceil(p * n)) for p given in hundredths.
CeilPct_Floor(p, n) == (p * n) \div 100

CeilPct(p, n) == (p * n + 99) \div 100

\* percentile(durations, p): nearest rank on a sorted slice, 0 when empty.
percentile(durations, p) ==
    LET n == Len(durations)
        rank == CeilPct(p, n) - 1
        clamped == IF rank < 0 THEN 0 ELSE IF rank >= n THEN n - 1 ELSE rank
    IN  IF n = 0 THEN 0 ELSE durations[clamped + 1]

\* time.Duration.Microseconds: integer division truncating toward zero.
Microseconds(d) == IF d >= 0 THEN d \div 1000 ELSE -((-d) \div 1000)

\* The caller's samples after printLatencyStats: it sorts a copy.
SamplesAfterStats(samples) == samples

\* The log lines printLatencyStats(label, samples) writes.
printLatencyStats_NoGuard(label, samples) ==
    LET sorted == SortAsc(samples)
    IN  <<[prefix |-> IF label = "INTERNAL" THEN "INTERNAL_LATENCY_STATS"
                      ELSE "E2E_LATENCY_STATS",
           count |-> Len(sorted),
           p50_us |-> Microseconds(percentile(sorted, 50)),
           p90_us |-> Microseconds(percentile(sorted, 90)),
           p99_us |-> Microseconds(percentile(sorted, 99))]>>

printLatencyStats(label, samples) ==
    IF Len(samples) = 0 THEN <<>>
    ELSE LET sorted == SortAsc(samples)
         IN  <<[prefix |-> IF label = "INTERNAL" THEN "INTERNAL_LATENCY_STATS"
                           ELSE "E2E_LATENCY_STATS",
                count |-> Len(sorted),
                p50_us |-> Microseconds(percentile(sorted, 50)),
                p90_us |-> Microseconds(percentile(sorted, 90)),
                p99_us |-> Microseconds(percentile(sorted, 99))]>>

(***************************************************************************)
(* Initial state: main has subscribed and started the consumer goroutine.  *)
(***************************************************************************)
Init ==
    /\ pc = "receive"
    /\ mainPc = "wait"
    /\ msg = NoMsg
    /\ sendTimeNano = 0
    /\ batch = <<>>
    /\ internalSamples = <<>>
    /\ latencySamples = <<>>
    /\ writeURLValid \in BOOLEAN
    /\ forwards = <<>>
    /\ posts = <<>>
    /\ statsLog = <<>>
    /\ decoded = <<>>
    /\ nReceived = 0
    /\ nSumm = 0
    /\ errLog = <<>>
    /\ sentLog = <<>>
    /\ clockSkew = 0
    /\ pooledMetric = ZeroMetric
    /\ metricsOut = 0
    /\ buffersOut = 0
    /\ BenchStart

\* The process has not exited: its goroutines can take steps.
Running == mainPc # "exited"

\* pubsub.Close() has run.
Closed == mainPc \in {"closed", "exited"}

\* internalDuration := time.Since(recvAt), as this run's clock reads it.
InternalDuration(p) == SinceRecv(p) + clockSkew

\* time.Since(time.Unix(0, sendTimeNano)), as this run's clock reads it.
E2EDuration(sent) == SinceSend(sent) + clockSkew

(***************************************************************************)
(* Consumer goroutine.                                                     *)
(***************************************************************************)
\* pubsub.ReceiveMessage returns a message.
ReceiveMessage_AfterError ==
    /\ Running /\ ~Closed
    /\ pc \in {"receive", "done"}
    /\ nReceived < MaxMsgs
    /\ \E p \in Payloads : msg' = p
    /\ nReceived' = nReceived + 1
    /\ pc' = "decode"
    /\ UNCHANGED <<mainPc, sendTimeNano, batch, internalSamples, latencySamples,
                   writeURLValid, forwards, posts, statsLog, decoded, nSumm, errLog,
                   sentLog,
                   clockSkew,
                   pooledMetric,
                   metricsOut,
                   buffersOut,
                   benchVars>>

\* pubsub.ReceiveMessage returns a message, one of the payloads S that the
\* publishers of the channel send.
Receive(S) ==
    /\ Running /\ ~Closed
    /\ pc = "receive"
    /\ nReceived < MaxMsgs
    /\ \E p \in S : msg' = p
    /\ nReceived' = nReceived + 1
    /\ pc' = "decode"
    /\ UNCHANGED <<mainPc, sendTimeNano, batch, internalSamples, latencySamples,
                   writeURLValid, forwards, posts, statsLog, decoded, nSumm, errLog,
                   sentLog,
                   clockSkew,
                   pooledMetric,
                   metricsOut,
                   buffersOut,
                   benchVars>>

ReceiveMessage == Receive(Payloads)

\* The line log.Printf("Redis error: %v", err) writes: err tells a closed
\* subscription from a failure of the transport.
RedisError == [line |-> "Redis error", err |-> IF Closed THEN "closed" ELSE "failure"]

\* pubsub.ReceiveMessage returns an error: the goroutine logs and returns.
ReceiveError_Graceful ==
    /\ Running
    /\ pc = "receive"
    /\ errLog' = IF Closed THEN errLog ELSE Append(errLog, RedisError)
    /\ pc' = "done"
    /\ UNCHANGED <<mainPc, msg, sendTimeNano, batch, internalSamples, latencySamples,
                   writeURLValid, forwards, posts, statsLog, decoded, nReceived, nSumm,
                   sentLog,
                   clockSkew,
                   pooledMetric,
                   metricsOut,
                   buffersOut,
                   benchVars>>

ReceiveError ==
    /\ Running
    /\ pc = "receive"
    /\ errLog' = Append(errLog, RedisError)
    /\ pc' = "done"
    /\ UNCHANGED <<mainPc, msg, sendTimeNano, batch, internalSamples, latencySamples,
                   writeURLValid, forwards, posts, statsLog, decoded, nReceived, nSumm,
                   sentLog,
                   clockSkew,
                   pooledMetric,
                   metricsOut,
                   buffersOut,
                   benchVars>>

\* The failure exit keeps the Metric: `continue` without metricPool.Put.
DecodeDrop_NoPut ==
    /\ Running
    /\ pc = "decode"
    /\ pooledMetric' = ZeroMetric
    /\ metricsOut' = PoolGet(metricsOut)
    /\ DecodeFails(msg)
    /\ msg' = NoMsg
    /\ pc' = "receive"
    /\ UNCHANGED <<mainPc, sendTimeNano, batch, internalSamples, latencySamples,
                   writeURLValid, forwards, posts, statsLog, decoded, nReceived, nSumm, errLog,
                   sentLog,
                   clockSkew,
                   buffersOut,
                   benchVars>>

\* The decode fails: the message is dropped and the loop continues.
DecodeDrop ==
    /\ Running
    /\ pc = "decode"
    /\ pooledMetric' = PutMetric(msg)
    /\ metricsOut' = PoolPut(PoolGet(metricsOut))
    /\ DecodeFails(msg)
    /\ msg' = NoMsg
    /\ pc' = "receive"
    /\ UNCHANGED <<mainPc, sendTimeNano, batch, internalSamples, latencySamples,
                   writeURLValid, forwards, posts, statsLog, decoded, nReceived, nSumm, errLog,
                   sentLog,
                   clockSkew,
                   buffersOut,
                   benchVars>>

\* The batch is also forwarded when the internal sample is a slow one.
DecodeAppend_FlushWhenSlow ==
    /\ Running
    /\ pc = "decode"
    /\ pooledMetric' = PutMetric(msg)
    /\ metricsOut' = IF IsBinary(msg) THEN metricsOut ELSE PoolPut(PoolGet(metricsOut))
    /\ ~DecodeFails(msg)
    /\ LET m == DecodeMetric(msg)
           pt == BatchPoint(m, Len(decoded) + 1)
       IN  /\ batch' = AppendPoint(batch, pt)
           /\ decoded' = Append(decoded, Plain(pt))
           /\ sendTimeNano' = m.sendTimeNano
           /\ sentLog' = Append(sentLog, m.sendTimeNano)
    /\ internalSamples' = Append(internalSamples, InternalDuration(msg))
    /\ msg' = NoMsg
    /\ pc' = IF BatchFull(batch') \/ InternalDuration(msg) > 2000
             THEN "flush" ELSE "track"
    /\ UNCHANGED <<mainPc, latencySamples, writeURLValid, forwards, posts,
                   statsLog, nReceived, nSumm, errLog, clockSkew,
                   buffersOut,
                   benchVars>>

\* The window is tested, summarized and reset as soon as the internal
\* sample is taken, before the batch is tested.
DecodeAppend_SummarizeFirst ==
    /\ Running
    /\ pc = "decode"
    /\ pooledMetric' = PutMetric(msg)
    /\ metricsOut' = IF IsBinary(msg) THEN metricsOut ELSE PoolPut(PoolGet(metricsOut))
    /\ ~DecodeFails(msg)
    /\ LET m == DecodeMetric(msg)
           pt == BatchPoint(m, Len(decoded) + 1)
       IN  /\ batch' = AppendPoint(batch, pt)
           /\ decoded' = Append(decoded, Plain(pt))
           /\ sendTimeNano' = m.sendTimeNano
           /\ sentLog' = Append(sentLog, m.sendTimeNano)
    /\ LET samples == Append(internalSamples, InternalDuration(msg))
       IN  IF WindowFull(samples)
           THEN /\ statsLog' = statsLog \o printLatencyStats("E2E", latencySamples)
                                        \o printLatencyStats("INTERNAL", samples)
                /\ latencySamples' = <<>>
                /\ internalSamples' = <<>>
                /\ nSumm' = nSumm + 1
           ELSE /\ internalSamples' = samples
                /\ UNCHANGED <<statsLog, latencySamples, nSumm>>
    /\ msg' = NoMsg
    /\ pc' = IF BatchFull(batch') THEN "flush" ELSE "track"
    /\ UNCHANGED <<mainPc, writeURLValid, forwards, posts, nReceived, errLog,
                   clockSkew,
                   buffersOut,
                   benchVars>>

\* The end-to-end sample is taken with the internal one, before the batch
\* is tested.
DecodeAppend_TrackFirst ==
    /\ Running
    /\ pc = "decode"
    /\ pooledMetric' = PutMetric(msg)
    /\ metricsOut' = IF IsBinary(msg) THEN metricsOut ELSE PoolPut(PoolGet(metricsOut))
    /\ ~DecodeFails(msg)
    /\ LET m == DecodeMetric(msg)
           pt == BatchPoint(m, Len(decoded) + 1)
       IN  /\ batch' = AppendPoint(batch, pt)
           /\ decoded' = Append(decoded, Plain(pt))
           /\ sentLog' = Append(sentLog, m.sendTimeNano)
           /\ latencySamples' = IF m.sendTimeNano # 0
                                THEN Append(latencySamples, E2EDuration(m.sendTimeNano))
                                ELSE latencySamples
    /\ sendTimeNano' = 0
    /\ internalSamples' = Append(internalSamples, InternalDuration(msg))
    /\ msg' = NoMsg
    /\ pc' = IF BatchFull(batch') THEN "flush" ELSE "track"
    /\ UNCHANGED <<mainPc, writeURLValid, forwards, posts,
                   statsLog, nReceived, nSumm, errLog,
                   clockSkew,
                   buffersOut,
                   benchVars>>

\* The internal sample of a message that fills the batch is left until
\* after the forward.
DecodeAppend_SampleAfterFlush ==
    /\ Running
    /\ pc = "decode"
    /\ pooledMetric' = PutMetric(msg)
    /\ metricsOut' = IF IsBinary(msg) THEN metricsOut ELSE PoolPut(PoolGet(metricsOut))
    /\ ~DecodeFails(msg)
    /\ LET m == DecodeMetric(msg)
           pt == BatchPoint(m, Len(decoded) + 1)
       IN  /\ batch' = AppendPoint(batch, pt)
           /\ decoded' = Append(decoded, Plain(pt))
           /\ sendTimeNano' = m.sendTimeNano
           /\ sentLog' = Append(sentLog, m.sendTimeNano)
    /\ internalSamples' = IF BatchFull(batch') THEN internalSamples
                          ELSE Append(internalSamples, InternalDuration(msg))
    /\ msg' = NoMsg
    /\ pc' = IF BatchFull(batch') THEN "flush" ELSE "track"
    /\ UNCHANGED <<mainPc, latencySamples, writeURLValid, forwards, posts,
                   statsLog, nReceived, nSumm, errLog,
                   clockSkew,
                   buffersOut,
                   benchVars>>

\* The decode succeeds: the point is appended to the batch and the internal
\* latency sample is taken.
DecodeAppend ==
    /\ Running
    /\ pc = "decode"
    /\ pooledMetric' = PutMetric(msg)
    /\ metricsOut' = IF IsBinary(msg) THEN metricsOut ELSE PoolPut(PoolGet(metricsOut))
    /\ ~DecodeFails(msg)
    /\ LET m == DecodeMetric(msg)
           pt == BatchPoint(m, Len(decoded) + 1)
       IN  /\ batch' = AppendPoint(batch, pt)
           /\ decoded' = Append(decoded, Plain(pt))
           /\ sendTimeNano' = m.sendTimeNano
           /\ sentLog' = Append(sentLog, m.sendTimeNano)
    /\ internalSamples' = Append(internalSamples, InternalDuration(msg))
    /\ msg' = NoMsg
    /\ pc' = IF BatchFull(batch') THEN "flush" ELSE "track"
    /\ UNCHANGED <<mainPc, latencySamples, writeURLValid, forwards, posts,
                   statsLog, nReceived, nSumm, errLog,
                   clockSkew,
                   buffersOut,
                   benchVars>>

\* One request per point instead of one per batch.
RECURSIVE PostsPerEntry(_)
PostsPerEntry(b) ==
    IF b = <<>> THEN <<>>
    ELSE <<[body |-> SerializeBatch(<<Head(b)>>), ids |-> IdSeq(<<Head(b)>>),
            result |-> <<"inflight", 0>>]>> \o PostsPerEntry(Tail(b))

FlushBegin_PerEntry ==
    /\ Running
    /\ pc = "flush"
    /\ forwards' = Append(forwards, PlainSeq(batch))
    /\ IF Len(batch) = 0 \/ ~writeURLValid
       THEN /\ batch' = ResetBatch(batch)
            /\ pc' = "track"
            /\ UNCHANGED posts
            /\ buffersOut' = IF Len(batch) = 0 THEN buffersOut
                             ELSE PoolPut(PoolGet(buffersOut))
       ELSE /\ posts' = posts \o PostsPerEntry(batch)
            /\ pc' = "post"
            /\ UNCHANGED batch
            /\ buffersOut' = PoolGet(buffersOut)
    /\ UNCHANGED <<mainPc, msg, sendTimeNano, internalSamples, latencySamples,
                   writeURLValid, statsLog, decoded, nReceived, nSumm, errLog,
                   sentLog,
                   clockSkew,
                   pooledMetric,
                   metricsOut,
                   benchVars>>

\* flushInfluxBatch up to the request: nothing to do for an empty batch;
\* otherwise the batch is serialized and the request built. A request that
\* cannot be built ends the flush; one that can is sent.
FlushBegin ==
    /\ Running
    /\ pc = "flush"
    /\ forwards' = Append(forwards, PlainSeq(batch))
    /\ IF Len(batch) = 0 \/ ~writeURLValid
       THEN /\ batch' = ResetBatch(batch)
            /\ pc' = "track"
            /\ UNCHANGED posts
            /\ buffersOut' = IF Len(batch) = 0 THEN buffersOut
                             ELSE PoolPut(PoolGet(buffersOut))
       ELSE /\ posts' = Append(posts, [body |-> SerializeBatch(batch),
                                       ids |-> IdSeq(batch),
                                       result |-> <<"inflight", 0>>])
            /\ pc' = "post"
            /\ UNCHANGED batch
            /\ buffersOut' = PoolGet(buffersOut)
    /\ UNCHANGED <<mainPc, msg, sendTimeNano, internalSamples, latencySamples,
                   writeURLValid, statsLog, decoded, nReceived, nSumm, errLog,
                   sentLog,
                   clockSkew,
                   pooledMetric,
                   metricsOut,
                   benchVars>>

\* A failed write is sent again.
FlushEnd_Retry ==
    /\ Running
    /\ pc = "post"
    /\ \E r \in DoOutcomes :
         IF Accepted(r)
         THEN /\ posts' = [posts EXCEPT ![Len(posts)].result = r]
              /\ batch' = ResetBatch(batch)
              /\ pc' = "track"
              /\ buffersOut' = PoolPut(buffersOut)
         ELSE /\ posts' = Append([posts EXCEPT ![Len(posts)].result = r],
                                 [body |-> SerializeBatch(batch), ids |-> IdSeq(batch),
                                  result |-> <<"inflight", 0>>])
              /\ UNCHANGED <<batch, pc>>
              /\ buffersOut' = PoolGet(PoolPut(buffersOut))
    /\ UNCHANGED <<mainPc, msg, sendTimeNano, internalSamples, latencySamples,
                   writeURLValid, forwards, statsLog, decoded, nReceived, nSumm, errLog,
                   sentLog,
                   clockSkew,
                   pooledMetric,
                   metricsOut,
                   benchVars>>

\* A failed write ends the goroutine.
FlushEnd_StopOnFailure ==
    /\ Running
    /\ pc = "post"
    /\ \E r \in DoOutcomes :
         /\ posts' = [posts EXCEPT ![Len(posts)].result = r]
         /\ pc' = IF Accepted(r) THEN "track" ELSE "done"
    /\ buffersOut' = PoolPut(buffersOut)
    /\ batch' = ResetBatch(batch)
    /\ UNCHANGED <<mainPc, msg, sendTimeNano, internalSamples, latencySamples,
                   writeURLValid, forwards, statsLog, decoded, nReceived, nSumm, errLog,
                   sentLog,
                   clockSkew,
                   pooledMetric,
                   metricsOut,
                   benchVars>>

\* http.DefaultClient.Do returns; flushInfluxBatch logs a failure and
\* returns; the loop resets the batch.
FlushEnd ==
    /\ Running
    /\ pc = "post"
    /\ \E r \in DoOutcomes : posts' = [posts EXCEPT ![Len(posts)].result = r]
    /\ buffersOut' = PoolPut(buffersOut)
    /\ batch' = ResetBatch(batch)
    /\ pc' = "track"
    /\ UNCHANGED <<mainPc, msg, sendTimeNano, internalSamples, latencySamples,
                   writeURLValid, forwards, statsLog, decoded, nReceived, nSumm, errLog,
                   sentLog,
                   clockSkew,
                   pooledMetric,
                   metricsOut,
                   benchVars>>

\* The end-to-end sample, taken when the message carried a send time.
Track_Always ==
    /\ Running
    /\ pc = "track"
    /\ latencySamples' = Append(latencySamples, E2EDuration(sendTimeNano))
    /\ sendTimeNano' = 0
    /\ pc' = "summarize"
    /\ UNCHANGED <<mainPc, msg, batch, internalSamples, writeURLValid, forwards,
                   posts, statsLog, decoded, nReceived, nSumm, errLog,
                   sentLog,
                   clockSkew,
                   pooledMetric,
                   metricsOut,
                   buffersOut,
                   benchVars>>

Track ==
    /\ Running
    /\ pc = "track"
    /\ IF sendTimeNano # 0
       THEN latencySamples' = Append(latencySamples, E2EDuration(sendTimeNano))
       ELSE UNCHANGED latencySamples
    /\ sendTimeNano' = 0
    /\ pc' = "summarize"
    /\ UNCHANGED <<mainPc, msg, batch, internalSamples, writeURLValid, forwards,
                   posts, statsLog, decoded, nReceived, nSumm, errLog,
                   sentLog,
                   clockSkew,
                   pooledMetric,
                   metricsOut,
                   buffersOut,
                   benchVars>>

\* The check made on the end-to-end window instead of the internal one.
Summarize_ByE2EWindow ==
    /\ Running
    /\ pc = "summarize"
    /\ IF WindowFull(latencySamples)
       THEN /\ statsLog' = statsLog \o printLatencyStats("E2E", latencySamples)
                                    \o printLatencyStats("INTERNAL", internalSamples)
            /\ latencySamples' = <<>>
            /\ internalSamples' = <<>>
            /\ nSumm' = nSumm + 1
       ELSE UNCHANGED <<statsLog, latencySamples, internalSamples, nSumm>>
    /\ pc' = "receive"
    /\ UNCHANGED <<mainPc, msg, sendTimeNano, batch, writeURLValid, forwards,
                   posts, decoded, nReceived, errLog,
                   sentLog,
                   clockSkew,
                   pooledMetric,
                   metricsOut,
                   buffersOut,
                   benchVars>>

\* The summarization empties the internal window only.
Summarize_KeepE2E ==
    /\ Running
    /\ pc = "summarize"
    /\ IF WindowFull(internalSamples)
       THEN /\ statsLog' = statsLog \o printLatencyStats("E2E", latencySamples)
                                    \o printLatencyStats("INTERNAL", internalSamples)
            /\ UNCHANGED latencySamples
            /\ internalSamples' = <<>>
            /\ nSumm' = nSumm + 1
       ELSE UNCHANGED <<statsLog, latencySamples, internalSamples, nSumm>>
    /\ pc' = "receive"
    /\ UNCHANGED <<mainPc, msg, sendTimeNano, batch, writeURLValid, forwards,
                   posts, decoded, nReceived, errLog,
                   sentLog,
                   clockSkew,
                   pooledMetric,
                   metricsOut,
                   buffersOut,
                   benchVars>>

\* The summarization check that ends the iteration.
Summarize ==
    /\ Running
    /\ pc = "summarize"
    /\ IF WindowFull(internalSamples)
       THEN /\ statsLog' = statsLog \o printLatencyStats("E2E", latencySamples)
                                    \o printLatencyStats("INTERNAL", internalSamples)
            /\ latencySamples' = <<>>
            /\ internalSamples' = <<>>
            /\ nSumm' = nSumm + 1
       ELSE UNCHANGED <<statsLog, latencySamples, internalSamples, nSumm>>
    /\ pc' = "receive"
    /\ UNCHANGED <<mainPc, msg, sendTimeNano, batch, writeURLValid, forwards,
                   posts, decoded, nReceived, errLog,
                   sentLog,
                   clockSkew,
                   pooledMetric,
                   metricsOut,
                   buffersOut,
                   benchVars>>

(***************************************************************************)
(* Main goroutine.                                                         *)
(***************************************************************************)
\* SIGINT or SIGTERM arrives: <-sigChan returns and main prints its message.
Signal ==
    /\ mainPc = "wait"
    /\ mainPc' = "shutdown"
    /\ UNCHANGED <<pc, msg, sendTimeNano, batch, internalSamples, latencySamples,
                   writeURLValid, forwards, posts, statsLog, decoded, nReceived, nSumm, errLog,
                   sentLog,
                   clockSkew,
                   pooledMetric,
                   metricsOut,
                   buffersOut,
                   benchVars>>

\* main returns: the deferred pubsub.Close() runs.
ClosePubSub ==
    /\ mainPc = "shutdown"
    /\ mainPc' = "closed"
    /\ UNCHANGED <<pc, msg, sendTimeNano, batch, internalSamples, latencySamples,
                   writeURLValid, forwards, posts, statsLog, decoded, nReceived, nSumm, errLog,
                   sentLog,
                   clockSkew,
                   pooledMetric,
                   metricsOut,
                   buffersOut,
                   benchVars>>

\* The process exits: the consumer goroutine stops wherever it is.
Exit ==
    /\ mainPc = "closed"
    /\ mainPc' = "exited"
    /\ UNCHANGED <<pc, msg, sendTimeNano, batch, internalSamples, latencySamples,
                   writeURLValid, forwards, posts, statsLog, decoded, nReceived, nSumm, errLog,
                   sentLog,
                   clockSkew,
                   pooledMetric,
                   metricsOut,
                   buffersOut,
                   benchVars>>

Next ==
    \/ ReceiveMessage
    \/ ReceiveError
    \/ DecodeDrop
    \/ DecodeAppend
    \/ FlushBegin
    \/ FlushEnd
    \/ Track
    \/ Summarize
    \/ Signal
    \/ ClosePubSub
    \/ Exit

Spec == Init /\ [][Next]_vars

(***************************************************************************)
(* The loop under clocks that read differently from run to run.            *)
(***************************************************************************)
\* By how much the clock readings of a run can be later.
ClockSkews == {0, 300}

ClockInit ==
    /\ pc = "receive"
    /\ mainPc = "wait"
    /\ msg = NoMsg
    /\ sendTimeNano = 0
    /\ batch = <<>>
    /\ internalSamples = <<>>
    /\ latencySamples = <<>>
    /\ writeURLValid \in BOOLEAN
    /\ forwards = <<>>
    /\ posts = <<>>
    /\ statsLog = <<>>
    /\ decoded = <<>>
    /\ nReceived = 0
    /\ nSumm = 0
    /\ errLog = <<>>
    /\ sentLog = <<>>
    /\ clockSkew \in ClockSkews
    /\ pooledMetric = ZeroMetric
    /\ metricsOut = 0
    /\ buffersOut = 0
    /\ BenchStart

ClockSpec == ClockInit /\ [][Next]_vars

(***************************************************************************)
(* The decode on its own: one message of any kind is decoded.              *)
(***************************************************************************)
\* Values a 64-bit integer field and a float field of a payload can hold.
Int64Samples == {MinInt64, -1, 0, 1, 2, MaxInt64}
FloatSamples == {-3, 0, 10}

\* The 32-byte payloads the load generator can publish.
BinPayloads ==
    { BinPayload(ts, cpu, mem, sent) :
        ts \in Int64Samples, cpu \in FloatSamples, mem \in FloatSamples,
        sent \in Int64Samples }

\* Texts of 32 and of 70 bytes, JSON documents or not, each field a
\* number, absent or of another type; the document {} and a short text
\* that is no document.
TextPayloads ==
    { TextPayload(n, ok, ts, cpu, mem, sent) :
        n \in {32, 70}, ok \in BOOLEAN,
        ts \in {Absent, <<1>>, WrongType}, cpu \in {Absent, <<12>>, WrongType},
        mem \in {Absent, <<22>>, WrongType}, sent \in {Absent, <<7>>, WrongType} }
      \cup { TextPayload(2, TRUE, Absent, Absent, Absent, Absent),
             TextPayload(5, FALSE, Absent, Absent, Absent, Absent) }

DecodeInit ==
    /\ pc = "decode"
    /\ mainPc = "wait"
    /\ msg \in BinPayloads \cup TextPayloads
    /\ sendTimeNano = 0
    /\ batch = <<>>
    /\ internalSamples = <<>>
    /\ latencySamples = <<>>
    /\ writeURLValid = TRUE
    /\ forwards = <<>>
    /\ posts = <<>>
    /\ statsLog = <<>>
    /\ decoded = <<>>
    /\ nReceived = 1
    /\ nSumm = 0
    /\ errLog = <<>>
    /\ sentLog = <<>>
    /\ clockSkew = 0
    /\ pooledMetric = ZeroMetric
    /\ metricsOut = 0
    /\ buffersOut = 0
    /\ BenchStart

DecodeNext == DecodeDrop \/ DecodeAppend

DecodeSpec == DecodeInit /\ [][DecodeNext]_vars

(***************************************************************************)
(* printLatencyStats on its own: called once on any window.                *)
(***************************************************************************)
\* The durations of the samples of a window.
StatDurations == {1500, 2000}

StatsInit ==
    /\ pc = "stats"
    /\ mainPc = "wait"
    /\ msg = NoMsg
    /\ sendTimeNano = 0
    /\ batch = <<>>
    /\ internalSamples = <<>>
    /\ \E n \in 0..MaxStatsLen : latencySamples \in [1..n -> StatDurations]
    /\ writeURLValid = TRUE
    /\ forwards = <<>>
    /\ posts = <<>>
    /\ statsLog = <<>>
    /\ decoded = <<>>
    /\ nReceived = 0
    /\ nSumm = 0
    /\ errLog = <<>>
    /\ sentLog = <<>>
    /\ clockSkew = 0
    /\ pooledMetric = ZeroMetric
    /\ metricsOut = 0
    /\ buffersOut = 0
    /\ BenchStart

\* printLatencyStats("E2E", latencySamples)
PrintStats ==
    /\ pc = "stats"
    /\ statsLog' = statsLog \o printLatencyStats("E2E", latencySamples)
    /\ latencySamples' = SamplesAfterStats(latencySamples)
    /\ pc' = "printed"
    /\ UNCHANGED <<mainPc, msg, sendTimeNano, batch, internalSamples, writeURLValid,
                   forwards, posts, decoded, nReceived, nSumm, errLog,
                   sentLog,
                   clockSkew,
                   pooledMetric,
                   metricsOut,
                   buffersOut,
                   benchVars>>

StatsNext == PrintStats

StatsSpec == StatsInit /\ [][StatsNext]_vars

(***************************************************************************)
(* flushInfluxBatch on its own: called once on any batch, empty or not.    *)
(***************************************************************************)
\* The points the payloads decode to, and one whose timestamp is the
\* largest a 32-byte payload can carry.
Points ==
    { Plain(BatchPoint(DecodeMetric(p), 0)) : p \in {q \in Payloads : ~DecodeFails(q)} }
      \cup { Plain(BatchPoint(DecodeMetric(BinPayload(MaxInt64, 10, 20, 7)), 0)) }

\* A batch of the given points, numbered in order.
Numbered(ps) == [i \in 1..Len(ps) |-> [ts |-> ps[i].ts, cpu |-> ps[i].cpu,
                                       mem |-> ps[i].mem, id |-> i]]

FlushInit ==
    /\ pooledMetric = ZeroMetric
    /\ pc = "flush"
    /\ mainPc = "wait"
    /\ msg = NoMsg
    /\ sendTimeNano = 0
    /\ \E n \in 0..MaxFlushLen : \E ps \in [1..n -> Points] :
         /\ batch = Numbered(ps)
         /\ decoded = ps
    /\ internalSamples = <<>>
    /\ latencySamples = <<>>
    /\ writeURLValid \in BOOLEAN
    /\ forwards = <<>>
    /\ posts = <<>>
    /\ statsLog = <<>>
    /\ nReceived = 0
    /\ nSumm = 0
    /\ errLog = <<>>
    /\ sentLog = <<>>
    /\ clockSkew = 0
    /\ metricsOut = 0
    /\ buffersOut = 0
    /\ BenchStart

FlushNext ==
    \/ FlushBegin
    \/ FlushEnd

FlushSpec == FlushInit /\ [][FlushNext]_vars

(***************************************************************************)
(* Properties.                                                             *)
(***************************************************************************)
\* The concatenation of a sequence of sequences.
RECURSIVE Concat(_)
Concat(ss) == IF ss = <<>> THEN <<>> ELSE Head(ss) \o Concat(Tail(ss))

\* The decoded record numbered n is in the batch buffer.
InBatch(n) == \E i \in 1..Len(batch) : batch[i].id = n

\* The decoded record numbered n is in the body of the k-th POST.
InPost(n, k) == \E j \in 1..Len(posts[k].ids) : posts[k].ids[j] = n

\* The k-th POST is still in flight.
InFlight(k) == posts[k].result[1] = "inflight"

\* C1: the batch buffer never holds more than influxBatchSize entries, and
\* it holds fewer than that whenever the loop is about to receive the next
\* message (or has returned from there).
C1_BatchCapacity ==
    /\ Len(batch) <= influxBatchSize
    /\ pc \in {"receive", "done"} => Len(batch) < influxBatchSize

\* A second batch has just become full, after malformed and well-formed
\* messages alike.
C1_Witness ==
    /\ pc = "flush"
    /\ Len(batch) = influxBatchSize
    /\ Len(forwards) = 1
    /\ nReceived > Len(decoded)

\* C2: the forwarder is invoked on exactly every influxBatchSize-th
\* successful append: with k messages decoded it has been invoked
\* k \div influxBatchSize times (one less while the append that fills the
\* batch has not yet been followed by the call), every invocation carries
\* exactly influxBatchSize entries, and messages that fail to decode are
\* received without advancing the count.
C2_ForwardEveryBth ==
    /\ \A i \in 1..Len(forwards) : Len(forwards[i]) = influxBatchSize
    /\ Len(forwards) = (Len(decoded) \div influxBatchSize)
                         - (IF pc = "flush" THEN 1 ELSE 0)
    /\ pc = "flush" => Len(decoded) % influxBatchSize = 0
    /\ Len(decoded) <= nReceived

\* Two forwards after four decoded messages, a fifth decoded message
\* buffered, and one malformed message among the six received.
C2_Witness ==
    /\ pc = "receive"
    /\ Len(forwards) = 2
    /\ Len(decoded) = 2 * influxBatchSize + 1
    /\ nReceived = Len(decoded) + 1

\* C3: the batches handed to the forwarder so far, followed by the buffer
\* contents, are the decoded points in arrival order, nothing reordered and
\* nothing duplicated. While a forward is running the batch it was handed
\* is the buffer still (the buffer is reset when the call returns), so it
\* is counted once.
C3_ArrivalOrder ==
    Concat(forwards) \o (IF pc = "post" THEN <<>> ELSE PlainSeq(batch)) = decoded

\* Two batches forwarded and one point buffered, the points of the first
\* batch differing, so that a reordering would show.
C3_Witness ==
    /\ Len(forwards) = 2
    /\ Len(batch) = 1
    /\ pc = "receive"
    /\ forwards[1][1] # forwards[1][2]
    /\ forwards[2][1] # Plain(batch[1])

\* The forwards of a non-empty batch, in order.
NonEmptyForwards == SelectSeq(forwards, LAMBDA b : b # <<>>)

\* body holds one line per point of b, in the order of b.
OneLinePerPoint(body, b) ==
    /\ Len(body) = Len(b)
    /\ \A j \in 1..Len(b) :
         /\ body[j].cpu = b[j].cpu
         /\ body[j].mem = b[j].mem

\* C4 as stated: every forward of a non-empty batch has performed exactly
\* one POST, whose body has one line per entry in batch order, and a
\* forward of an empty batch none.
C4_ExactlyOnePost ==
    /\ Len(posts) = Len(NonEmptyForwards)
    /\ \A k \in 1..Len(posts) : OneLinePerPoint(posts[k].body, NonEmptyForwards[k])

\* C4, amended: a forward performs at most one POST, never one per entry:
\* exactly one, with one line per entry in batch order, when the batch is
\* non-empty and http.NewRequestWithContext accepts the write URL; none when
\* the batch is empty or the request cannot be built.
C4_OnePostPerBuiltRequest ==
    /\ Len(posts) = (IF writeURLValid THEN Len(NonEmptyForwards) ELSE 0)
    /\ \A k \in 1..Len(posts) : OneLinePerPoint(posts[k].body, NonEmptyForwards[k])

\* A batch of several different points has been forwarded in one POST.
C4_Witness ==
    /\ pc = "track"
    /\ Len(forwards) = 1
    /\ Len(forwards[1]) = MaxFlushLen
    /\ forwards[1][1] # forwards[1][2]
    /\ Len(posts) = 1
    /\ posts[1].result = <<"status", 204>>

\* The step ends a forward that failed: the request could not be built, or
\* Do returned a transport error or a status other than 204 and 200.
ForwardFails ==
    \/ pc = "flush" /\ pc' # "flush" /\ ~writeURLValid
    \/ /\ pc = "post"
       /\ posts' # posts
       /\ \E k \in 1..Len(posts) :
            /\ InFlight(k)
            /\ posts'[k].result \notin {<<"inflight", 0>>, <<"status", 204>>, <<"status", 200>>}

\* C5: a forward that fails does not stop the loop: the iteration goes on
\* to its next phase, the buffer is empty afterwards (the failed batch is
\* not put back), no further POST is issued for it and nothing else that
\* the loop has accumulated is touched; the goroutine returns only from a
\* receive.
C5_ForwardFailureContinues ==
    [][ /\ ForwardFails =>
             /\ pc' = "track"
             /\ batch' = <<>>
             /\ Len(posts') = Len(posts)
             /\ \A k \in 1..Len(posts') : ~(posts'[k].result = <<"inflight", 0>>)
             /\ UNCHANGED <<internalSamples, latencySamples, decoded, mainPc>>
        /\ pc' = "done" => pc \in {"receive", "done"} ]_vars

\* After a write that failed, later messages were received, batched and
\* written, and the write was accepted.
C5_Witness ==
    /\ Len(posts) = 2
    /\ posts[1].result = <<"status", 500>>
    /\ posts[2].result = <<"status", 204>>
    /\ pc = "receive"
    /\ batch = <<>>

\* C6: forwarding is at most once: a decoded record is in the body of at
\* most one POST, and once in it, whatever the result of the POST.
C6_AtMostOnce ==
    \A k1, k2 \in 1..Len(posts) :
      \A j1 \in 1..Len(posts[k1].ids) : \A j2 \in 1..Len(posts[k2].ids) :
        posts[k1].ids[j1] = posts[k2].ids[j2] => k1 = k2 /\ j1 = j2

\* A write failed with a transport error, and a later batch was written.
C6_Witness ==
    /\ Len(posts) = 3
    /\ posts[1].result = <<"error", 0>>
    /\ posts[2].result = <<"status", 500>>
    /\ ~InFlight(3)

\* The decoded record numbered n is in the body of a POST the sink accepted.
Delivered(n) == \E k \in 1..Len(posts) : InPost(n, k) /\ Accepted(posts[k].result)

\* The decoded record numbered n may still be delivered: it is buffered,
\* or in a POST that has not returned.
Pending(n) == InBatch(n) \/ \E k \in 1..Len(posts) : InPost(n, k) /\ InFlight(k)

\* C7 as stated (at least once): every decoded record is eventually in an
\* accepted write. A record leaves the buffer only through a forward and is
\* never put back, so one that is neither delivered nor pending can no
\* longer be delivered: the claim requires that there is no such record.
C7_AtLeastOnce ==
    \A n \in 1..Len(decoded) : Delivered(n) \/ Pending(n)

\* C7, amended (at most once, best effort): a decoded record is written to
\* the sink in at most one POST, issued when its batch fills, so it is
\* delivered exactly when that one POST is accepted; once its forward has
\* ended, accepted or not, the record is no longer buffered, and a record
\* that has left the buffer without a POST is one whose request could not
\* be built: a record whose forward failed is never delivered.
C7_DeliveredIffAccepted ==
    \A n \in 1..Len(decoded) :
      LET ks == {k \in 1..Len(posts) : InPost(n, k)}
      IN  /\ Cardinality(ks) <= 1
          /\ (\E k \in ks : ~InFlight(k)) => ~InBatch(n)
          /\ ~InBatch(n) => \/ ks # {}
                            \/ ~writeURLValid /\ n <= Len(Concat(forwards))
          /\ InBatch(n) /\ ks # {} => pc = "post"

\* A record was dropped with its failed batch while a later one was
\* delivered.
C7_Witness ==
    /\ Len(decoded) = 2 * influxBatchSize + 1
    /\ ~Delivered(1) /\ ~Pending(1)
    /\ Delivered(influxBatchSize + 1)
    /\ Pending(2 * influxBatchSize + 1)

\* C8: after a graceful shutdown no decoded record is lost: when the
\* process has exited, no record is left in the batch buffer only and no
\* POST was cut off in flight.
C8_NoLossOnShutdown ==
    mainPc = "exited" =>
        /\ batch = <<>>
        /\ \A k \in 1..Len(posts) : ~InFlight(k)

\* The lines the step adds to the log.
NewStats == SubSeq(statsLog', Len(statsLog) + 1, Len(statsLog'))

\* The step is a summarization.
Summarizes == nSumm' # nSumm

\* C9: when the internal window has reached WindowSize samples, exactly one
\* summarization takes place and both windows are emptied together,
\* however many samples (0..WindowSize) the end-to-end window holds; the
\* windows are emptied, and a summary logged, in no other step, so the
\* end-to-end window alone never triggers a summarization.
C9_WindowRotation ==
    [][ /\ Summarizes =>
             /\ nSumm' = nSumm + 1
             /\ Len(internalSamples) = WindowSize
             /\ Len(latencySamples) \in 0..WindowSize
             /\ internalSamples' = <<>>
             /\ latencySamples' = <<>>
        /\ Len(internalSamples) = WindowSize /\ internalSamples' # internalSamples
             => Summarizes
        /\ ~Summarizes =>
             /\ statsLog' = statsLog
             /\ Len(internalSamples') >= Len(internalSamples)
             /\ Len(latencySamples') >= Len(latencySamples)
             /\ Len(internalSamples') <= WindowSize
        /\ pc = "summarize" /\ pc' # pc /\ Len(internalSamples) >= WindowSize
             => Summarizes ]_vars

\* Two summarizations have happened, the first with an empty end-to-end
\* window and the second with a partly filled one.
C9_Witness ==
    /\ nSumm = 2
    /\ Len(statsLog) = 3
    /\ statsLog[1].prefix = "INTERNAL_LATENCY_STATS"
    /\ statsLog[2].prefix = "E2E_LATENCY_STATS"
    /\ statsLog[2].count \in 1..(WindowSize - 1)
    /\ internalSamples = <<>>
    /\ latencySamples = <<>>

Decodes == decoded' # decoded

\* s2 is s1 with exactly one sample more.
OneMore(s1, s2) == Len(s2) = Len(s1) + 1 /\ SubSeq(s2, 1, Len(s1)) = s1

\* C11: every successfully decoded message adds exactly one sample to the
\* internal window, in the step that decodes it, and no other step adds
\* one; in its iteration the end-to-end window gets exactly one sample
\* when the record's send time is not zero and none when it is zero, and
\* no other step adds one.
C11_SamplesPerMessage ==
    [][ /\ Decodes =>
             /\ OneMore(internalSamples, internalSamples')
             /\ latencySamples' = latencySamples
             /\ sendTimeNano' = DecodeMetric(msg).sendTimeNano
             /\ pc' \in {"flush", "track"}
        /\ (pc = "flush" \/ pc = "post") => sendTimeNano' = sendTimeNano
        /\ (pc = "track" /\ pc' # pc) =>
             /\ sendTimeNano # 0 => OneMore(latencySamples, latencySamples')
             /\ sendTimeNano = 0 => latencySamples' = latencySamples
             /\ internalSamples' = internalSamples
             /\ pc' = "summarize"
        /\ (~Decodes /\ ~Summarizes) => internalSamples' = internalSamples
        /\ (pc # "track" /\ ~Summarizes) => latencySamples' = latencySamples ]_vars

\* Two messages have been processed, one with a send time and one without:
\* the internal window holds two samples and the end-to-end window one.
C11_Witness ==
    /\ pc = "receive"
    /\ Len(decoded) = 2
    /\ Len(internalSamples) = 2
    /\ Len(latencySamples) = 1


(***************************************************************************)
(* Messages that do not decode                                             *)
(***************************************************************************)
\* The payload is a text that Unmarshal rejects.
Malformed(p) ==
    /\ p.len # 32
    /\ \/ ~p.valid
       \/ WrongType \in {p.timestamp, p.cpu_usage, p.mem_usage, p.send_time_unix_nano}

\* C12: a message that fails to decode is dropped without stopping the
\* loop: its iteration leaves the batch and both windows unchanged, makes
\* no forward and no summarization, and goes straight back to the receive.
C12_DropLeavesStateUnchanged ==
    [][ (pc = "decode" /\ Malformed(msg) /\ pc' # pc) =>
          /\ pc' = "receive"
          /\ batch' = batch
          /\ internalSamples' = internalSamples
          /\ latencySamples' = latencySamples
          /\ forwards' = forwards
          /\ posts' = posts
          /\ statsLog' = statsLog
          /\ nSumm' = nSumm
          /\ decoded' = decoded
          /\ errLog' = errLog ]_vars

\* Of two messages one was dropped and one decoded, and the loop went on:
\* a third message has been received and the batch holds the decoded one.
C12_Witness ==
    /\ pc = "decode"
    /\ ~Malformed(msg)
    /\ nReceived = 3
    /\ Len(decoded) = 1
    /\ Len(batch) = 1
    /\ Len(internalSamples) = 1


(***************************************************************************)
(* Format detection and the binary layout                                  *)
(***************************************************************************)
\* The record a decode step has produced: the batch entry and the send time.
Produced == [ts |-> batch'[Len(batch')].ts, cpu |-> batch'[Len(batch')].cpu,
             mem |-> batch'[Len(batch')].mem, sendTimeNano |-> sendTimeNano']

\* C13: the format is chosen by the payload length alone. A payload of
\* exactly 32 bytes is read by the binary layout whatever it holds (a JSON
\* document included) and always yields a batch entry, never a decode
\* error; a payload of any other length goes to the text decoder, which
\* drops it or yields the fields of the document, never the words of the
\* binary layout.
C13_FormatByLength ==
    [][ (pc = "decode" /\ pc' # pc) =>
          /\ msg.len = 32 =>
               /\ Decodes
               /\ Len(batch') = Len(batch) + 1
               /\ Produced = DecodeBinary(msg)
          /\ msg.len # 32 =>
               IF Malformed(msg)
               THEN ~Decodes /\ batch' = batch
               ELSE Decodes /\ Produced = DecodeText(msg) ]_vars

\* A JSON document of exactly 32 bytes has been decoded: the entry holds
\* the words its characters spell, not the fields it names.
C13_Witness ==
    /\ pc = "track"
    /\ Len(batch) = 1
    /\ batch[1].ts = 123
    /\ batch[1].cpu = 34
    /\ batch[1].mem = 116
    /\ sendTimeNano = 105

\* C14: the binary layout round-trips: decoding the 32 bytes the load
\* generator builds from (timestamp, cpu, mem, send time) yields the same
\* four values, negative integers and negative floats included.
C14_BinaryRoundTrip ==
    [][ (pc = "decode" /\ pc' # pc) =>
          \A ts \in Int64Samples, cpu \in FloatSamples, mem \in FloatSamples,
             sent \in Int64Samples :
             msg = BinPayload(ts, cpu, mem, sent) =>
               /\ Decodes
               /\ Produced = [ts |-> ts, cpu |-> cpu, mem |-> mem,
                              sendTimeNano |-> sent] ]_vars

\* The payload of the smallest timestamp, a negative float and the send
\* time -1 has been decoded.
C14_Witness ==
    /\ pc = "track"
    /\ Len(batch) = 1
    /\ batch[1].ts = MinInt64
    /\ batch[1].cpu = -3
    /\ batch[1].mem = 10
    /\ sendTimeNano = -1


(***************************************************************************)
(* Percentiles                                                             *)
(***************************************************************************)
\* The nearest rank of the percentile p (in hundredths) among n samples,
\* counted from 1: the least r with r >= p * n / 100, kept within 1..n.
NearestRank(p, n) ==
    LET rs == {r \in 1..n : 100 * r >= p * n}
    IN  IF rs = {} THEN n ELSE CHOOSE r \in rs : \A q \in rs : r <= q

\* The k-th smallest sample of the window w, counted from 1.
KthSmallest(w, k) ==
    CHOOSE v \in {w[i] : i \in 1..Len(w)} :
        /\ Cardinality({i \in 1..Len(w) : w[i] < v}) < k
        /\ Cardinality({i \in 1..Len(w) : w[i] <= v}) >= k

\* C15: for a window of n >= 1 samples and p of 50, 90 and 99 hundredths
\* the reported percentile is the sample at index ceil(p * n) - 1 of the
\* ascending order of the window (index 8 for p90 of 10 samples), in
\* microseconds; percentile of an empty slice is 0, and an empty window is
\* not reported at all; the window handed in is not reordered.
C15_NearestRank ==
    [][ (pc = "stats" /\ pc' # pc) =>
          LET w == latencySamples
              n == Len(w)
          IN  /\ latencySamples' = w
              /\ n = 0 =>
                   /\ statsLog' = statsLog
                   /\ \A p \in {50, 90, 99} : percentile(w, p) = 0
              /\ n > 0 =>
                   /\ Len(statsLog') = Len(statsLog) + 1
                   /\ statsLog'[Len(statsLog')].count = n
                   /\ statsLog'[Len(statsLog')].p50_us =
                        Microseconds(KthSmallest(w, NearestRank(50, n)))
                   /\ statsLog'[Len(statsLog')].p90_us =
                        Microseconds(KthSmallest(w, NearestRank(90, n)))
                   /\ statsLog'[Len(statsLog')].p99_us =
                        Microseconds(KthSmallest(w, NearestRank(99, n)))
                   /\ n = 10 => NearestRank(90, n) = 9 ]_vars

\* A window of ten samples, the two largest first, has been summarized:
\* p50 is a small sample, p90 (index 8 of the sorted copy) a large one, and
\* the window is still in arrival order.
C15_Witness ==
    /\ pc = "printed"
    /\ latencySamples = <<2000, 2000, 1500, 1500, 1500, 1500, 1500, 1500, 1500, 1500>>
    /\ Len(statsLog) = 1
    /\ statsLog[1].count = 10
    /\ statsLog[1].p50_us = 1
    /\ statsLog[1].p90_us = 2
    /\ statsLog[1].p99_us = 2


(***************************************************************************)
(* Text documents                                                          *)
(***************************************************************************)
\* The field f of a document holds a number.
IsNumber(f) == Len(f) = 1

\* The value of a field that is a number, and 0 for one that is absent.
NumberOrZero(f) == IF IsNumber(f) THEN f[1] ELSE 0

C17_ExactNanoseconds ==
    \A k \in 1..Len(posts) : \A j \in 1..Len(posts[k].body) :
        posts[k].body[j].tsNano = NonEmptyForwards[k][j].ts * NanosPerSecond


(***************************************************************************)
(* The end of the loop                                                     *)
(***************************************************************************)
\* The consumer goroutine has returned.
LoopEnded == pc = "done"

\* C18: once the receive has returned an error the loop has ended for
\* good: no further receive, decode, append, forward or summarization, and
\* no new subscription; and the loop ends only at a receive that returns
\* an error, never at a decode or a forward.
C18_ReceiveErrorEndsLoop ==
    [][ /\ LoopEnded =>
             /\ LoopEnded'
             /\ UNCHANGED <<msg, sendTimeNano, batch, internalSamples,
                            latencySamples, forwards, posts, statsLog, decoded,
                            nReceived, nSumm, errLog>>
        /\ (~LoopEnded /\ LoopEnded') =>
             /\ pc = "receive"
             /\ Len(errLog') = Len(errLog) + 1
             /\ errLog'[Len(errLog')].line = "Redis error"
        /\ errLog' # errLog => LoopEnded' ]_vars

\* The receive failed after two messages, one of them in the batch; the
\* process is still running and more messages could be published.
C18_Witness ==
    /\ LoopEnded
    /\ mainPc = "wait"
    /\ nReceived = 2
    /\ Len(batch) = 1
    /\ Len(errLog) = 1
    /\ errLog[1].err = "failure"


\* A step of the process that no OS signal causes.
StepWithoutSignal ==
    \/ ReceiveMessage
    \/ ReceiveError
    \/ DecodeDrop
    \/ DecodeAppend
    \/ FlushBegin
    \/ FlushEnd
    \/ Track
    \/ Summarize
    \/ ClosePubSub
    \/ Exit

\* C19: a receive error propagates to the shutdown of the process: once
\* the loop has ended, the process has exited or can take a step towards
\* its exit that no OS signal causes.
C19_ErrorPropagatesToExit ==
    LoopEnded => (mainPc = "exited" \/ ENABLED StepWithoutSignal)


(***************************************************************************)
(* Close of the subscription                                               *)
(***************************************************************************)
\* The receive returns while the subscription is closed.
ReceiveReturnsClosed == Closed /\ pc = "receive" /\ pc' # pc

\* C20 as stated: a close of the subscription while the loop is blocked in
\* the receive ends the loop as a graceful termination: the loop ends and
\* no error is logged.
C20_CloseIsGraceful ==
    [][ ReceiveReturnsClosed => (LoopEnded' /\ errLog' = errLog) ]_vars

\* C20, amended: a close of the subscription while the loop is blocked in
\* the receive makes the receive return an error like any other: no
\* message is delivered any more, and when the receive returns the loop
\* logs a Redis error and ends.
C20_CloseIsAReceiveError ==
    [][ /\ ReceiveReturnsClosed =>
             /\ LoopEnded'
             /\ Len(errLog') = Len(errLog) + 1
             /\ errLog'[Len(errLog')] = [line |-> "Redis error", err |-> "closed"]
        /\ Closed => nReceived' = nReceived ]_vars

\* The subscription was closed while the loop was blocked in the receive
\* with one entry in the batch, and the loop has ended with a Redis error.
C20_Witness ==
    /\ mainPc = "closed"
    /\ LoopEnded
    /\ Len(batch) = 1
    /\ Len(errLog) = 1
    /\ errLog[1].err = "closed"


(***************************************************************************)
(* Order of the steps of an iteration                                      *)
(***************************************************************************)
\* The number of messages decoded since the last summarization.
DecodedSince == Len(decoded) - WindowSize * nSumm

\* C21: the internal sample of a message is taken after its entry has
\* been appended and before the forwarder is invoked: whenever a forward
\* is about to start or a POST is in flight, the entry of the current
\* message is the last of the batch and its internal sample is already in
\* the window.
C21_InternalSampleBeforeForward ==
    pc \in {"flush", "post"} =>
        /\ batch # <<>>
        /\ batch[Len(batch)].id = Len(decoded)
        /\ Len(internalSamples) = DecodedSince

\* A POST is in flight for a full batch, and the internal samples of both
\* of its messages are in the window.
C21_Witness ==
    /\ pc = "post"
    /\ Len(batch) = influxBatchSize
    /\ Len(internalSamples) = influxBatchSize
    /\ posts[Len(posts)].result = <<"inflight", 0>>


\* The number of messages decoded since the last summarization whose send
\* time is not zero.
TimedSince ==
    Cardinality({i \in (WindowSize * nSumm + 1)..Len(sentLog) : sentLog[i] # 0})

\* The message of this iteration carries a send time.
CurrentTimed == sentLog # <<>> /\ sentLog[Len(sentLog)] # 0

\* C22 as stated: the end-to-end sample of a message is recorded before
\* the batch is tested: whenever a forward is about to start or a POST is
\* in flight, the end-to-end window holds one sample per message with a
\* send time decoded since the last summarization, the current one
\* included.
C22_E2ESampleBeforeForward ==
    pc \in {"flush", "post"} => Len(latencySamples) = TimedSince

\* C22, amended: the end-to-end sample of a message is recorded after the
\* batch step and before the summarization test: while the forward of the
\* batch it completes is running the sample of the current message is not
\* in the window yet, and it is there once the forward has returned and
\* the loop reaches the summarization test.
C22_E2ESampleAfterForward ==
    /\ pc \in {"flush", "post", "track"} =>
         Len(latencySamples) = TimedSince - (IF CurrentTimed THEN 1 ELSE 0)
    /\ pc = "summarize" => Len(latencySamples) = TimedSince
    /\ pc \in {"receive", "decode", "done"} => Len(latencySamples) = TimedSince

\* A message with a send time has completed a batch whose POST is in
\* flight, and the end-to-end window is still empty.
C22_Witness ==
    /\ pc = "post"
    /\ Len(decoded) = influxBatchSize
    /\ sentLog[Len(sentLog)] # 0
    /\ sentLog[1] = 0
    /\ latencySamples = <<>>


\* C23: the summarization is the last step of an iteration: it happens
\* after the batch step, so when the current message has completed a batch
\* that batch has been forwarded and reset, and the windows summarized
\* hold the samples of the current message.
C23_SummarizeLast ==
    [][ Summarizes =>
          /\ pc = "summarize"
          /\ pc' = "receive"
          /\ Len(decoded) % influxBatchSize = 0 =>
               /\ batch = <<>>
               /\ Len(forwards) = Len(decoded) \div influxBatchSize
               /\ forwards[Len(forwards)][influxBatchSize] = decoded[Len(decoded)]
               /\ \A k \in 1..Len(posts) : posts[k].result # <<"inflight", 0>>
          /\ Len(internalSamples) = DecodedSince
          /\ DecodedSince = WindowSize
          /\ Len(latencySamples) = TimedSince
          /\ NewStats[Len(NewStats)].count = WindowSize ]_vars

\* The sixth message has completed the third batch and filled the window
\* a second time: the batch was forwarded and the summary made.
C23_Witness ==
    /\ pc = "receive"
    /\ Len(decoded) = 2 * WindowSize
    /\ Len(decoded) = 3 * influxBatchSize
    /\ nSumm = 2
    /\ Len(forwards) = 3
    /\ batch = <<>>


(***************************************************************************)
(* Forwarding and the clock                                                *)
(***************************************************************************)
\* The k-th run of influxBatchSize records of the decoded sequence.
Chunk(k) == SubSeq(decoded, (k - 1) * influxBatchSize + 1, k * influxBatchSize)

\* C24: latency tracking never affects forwarding. Under clocks that read
\* differently from run to run, what is forwarded is in every state a
\* function of the records decoded so far (which the payloads alone
\* determine), of the batch capacity and of the position in the loop: the
\* k-th forward is the k-th run of influxBatchSize records, the batch is
\* what follows the runs forwarded, and the k-th POST carries the k-th
\* run. Two runs fed the same payloads and sink outcomes therefore make
\* the same forwards with the same entries, whatever their samples are.
C24_ForwardsIndependentOfClock ==
    /\ Len(forwards) = (Len(decoded) \div influxBatchSize)
                         - (IF pc = "flush" THEN 1 ELSE 0)
    /\ \A k \in 1..Len(forwards) : forwards[k] = Chunk(k)
    /\ PlainSeq(batch) =
         SubSeq(decoded,
                influxBatchSize * (Len(forwards) - (IF pc = "post" THEN 1 ELSE 0)) + 1,
                Len(decoded))
    /\ \A k \in 1..Len(posts) :
         posts[k].ids = [j \in 1..influxBatchSize |-> (k - 1) * influxBatchSize + j]

\* A run whose clock reads later has forwarded a batch; its windows hold
\* samples that the run with the other clock does not have.
C24_Witness ==
    /\ clockSkew # 0
    /\ pc = "receive"
    /\ Len(forwards) = 1
    /\ Len(posts) = 1
    /\ internalSamples = <<1500 + clockSkew, 2000 + clockSkew>>
    /\ Len(latencySamples) = 1


(***************************************************************************)
(* The loop fed with text documents only: every message goes through the   *)
(* pooled Metric.                                                          *)
(***************************************************************************)
\* The documents of publishers in text mode: one with every field, one
\* without send_time_unix_nano, and one cut off after its four fields
\* (Unmarshal has filled the Metric when it meets the syntax error).
TextDocs ==
    { TextPayload(70, TRUE, <<1>>, <<10>>, <<20>>, <<7>>),
      TextPayload(70, TRUE, <<1>>, <<12>>, <<22>>, Absent),
      TextPayload(70, FALSE, <<3>>, <<44>>, <<55>>, <<9>>) }

ReceiveText == Receive(TextDocs)

PoolInit ==
    /\ pc = "receive"
    /\ mainPc = "wait"
    /\ msg = NoMsg
    /\ sendTimeNano = 0
    /\ batch = <<>>
    /\ internalSamples = <<>>
    /\ latencySamples = <<>>
    /\ writeURLValid = TRUE
    /\ forwards = <<>>
    /\ posts = <<>>
    /\ statsLog = <<>>
    /\ decoded = <<>>
    /\ nReceived = 0
    /\ nSumm = 0
    /\ errLog = <<>>
    /\ sentLog = <<>>
    /\ clockSkew = 0
    /\ pooledMetric = ZeroMetric
    /\ metricsOut = 0
    /\ buffersOut = 0
    /\ BenchStart

PoolNext ==
    \/ ReceiveText
    \/ DecodeDrop
    \/ DecodeAppend
    \/ FlushBegin
    \/ FlushEnd
    \/ Track
    \/ Summarize

PoolSpec == PoolInit /\ [][PoolNext]_vars


(***************************************************************************)
(* The pooled decode target                                                *)
(***************************************************************************)
\* C25: the record decoded from a text payload is decided by that payload
\* alone, whatever the pooled Metric held from earlier messages: each field
\* is the document's number, or 0 when the document does not name it. A
\* document without send_time_unix_nano decodes to send time 0 and adds no
\* end-to-end sample, even after a message that carried a send time.
C25_PayloadAloneDecides ==
    [][ /\ (pc = "decode" /\ pc' # pc /\ msg.len # 32 /\ Decodes) =>
            /\ Produced.ts = NumberOrZero(msg.timestamp)
            /\ Produced.cpu = NumberOrZero(msg.cpu_usage)
            /\ Produced.mem = NumberOrZero(msg.mem_usage)
            /\ sendTimeNano' = NumberOrZero(msg.send_time_unix_nano)
            /\ sentLog' = Append(sentLog, NumberOrZero(msg.send_time_unix_nano))
        /\ (pc = "track" /\ pc' # pc /\ sentLog[Len(sentLog)] = 0) =>
            latencySamples' = latencySamples ]_vars

\* A document with send time 7 and then one without a send time have been
\* processed: one end-to-end sample, from the first.
C25_Witness ==
    /\ pc = "receive"
    /\ nReceived = 2
    /\ sentLog = <<7, 0>>
    /\ Len(latencySamples) = 1
    /\ Len(internalSamples) = 2
    /\ pooledMetric = [ts |-> 1, cpu |-> 12, mem |-> 22, sendTimeNano |-> 0]

(***************************************************************************)
(* Pooled objects are handed back                                          *)
(***************************************************************************)
\* C26: every pooled object taken is put back exactly once on every exit
\* path. No count of objects that are out is ever negative or above one;
\* the only time an object is out between steps is the buffer while the
\* POST is in flight, and when the loop is about to receive (or has ended)
\* neither a Metric nor a buffer is out.
C26_PooledObjectsReturned ==
    /\ metricsOut = 0
    /\ buffersOut = (IF pc = "post" THEN 1 ELSE 0)
    /\ pc \in {"receive", "done"} => metricsOut = 0 /\ buffersOut = 0

\* The loop is about to receive after a dropped document (the Metric came
\* back on the failure exit), a decoded document, and a POST that the sink
\* did not accept (the buffer came back after the failure).
C26_Witness ==
    /\ pc = "receive"
    /\ nReceived = 3
    /\ Len(decoded) = 2
    /\ decoded[1].cpu = 12
    /\ Len(posts) = 1
    /\ ~Accepted(posts[1].result)
    /\ metricsOut = 0
    /\ buffersOut = 0

GrownFrom(a, b) == Len(a) <= Len(b) /\ SubSeq(b, 1, Len(a)) = a

\* The loop is about to receive: the end-to-end window is no longer than
\* the internal one, which is below capacity.
WindowsInOrder(e2e, internal) ==
    Len(e2e) <= Len(internal) /\ Len(internal) < WindowSize

\* C28: whenever the loop is about to receive the next message the
\* end-to-end window is no longer than the internal window, which holds
\* fewer than W samples; and a step that is not a summarization never
\* shrinks a window: it leaves it or adds samples at its end.
C28_WindowInvariant ==
    [][ /\ pc = "receive" => WindowsInOrder(latencySamples, internalSamples)
        /\ pc' = "receive" => WindowsInOrder(latencySamples', internalSamples')
        /\ ~Summarizes =>
             /\ GrownFrom(latencySamples, latencySamples')
             /\ GrownFrom(internalSamples, internalSamples') ]_vars

\* After a summarization the windows have grown again: the loop is about to
\* receive with two internal samples and one end-to-end sample.
C28_Witness ==
    /\ pc = "receive"
    /\ nSumm = 1
    /\ Len(decoded) = WindowSize + 2
    /\ Len(internalSamples) = 2
    /\ Len(latencySamples) = 1

(***************************************************************************)
(* The load generator (cmd/bench).                                         *)
(***************************************************************************)
\* The select at the top of a worker's loop: return when ctx is done,
\* otherwise build a sample and go on to publish it.
WorkerSelect(w) ==
    /\ workerPc[w] = "select"
    /\ IF ctxDone
       THEN /\ workerPc' = [workerPc EXCEPT ![w] = "exited"]
            /\ UNCHANGED attempts
       ELSE /\ attempts < MaxPublishes
            /\ attempts' = attempts + 1
            /\ workerPc' = [workerPc EXCEPT ![w] = "publish"]
    /\ UNCHANGED <<serverVars, okPublishes, totalSent, ctxDone, benchPc, progress,
                   finalTotal>>

\* rdb.PublishBytes / rdb.PublishMetric returns: with an error the worker
\* logs, sleeps and continues; without one it goes on to count the message.
WorkerPublish(w) ==
    /\ workerPc[w] = "publish"
    /\ \E ok \in BOOLEAN :
         IF ok
         THEN /\ okPublishes' = [okPublishes EXCEPT ![w] = @ + 1]
              /\ workerPc' = [workerPc EXCEPT ![w] = "add"]
         ELSE /\ workerPc' = [workerPc EXCEPT ![w] = "select"]
              /\ UNCHANGED okPublishes
    /\ UNCHANGED <<serverVars, attempts, totalSent, ctxDone, benchPc, progress,
                   finalTotal>>

\* atomic.AddUint64(&totalSent, 1): one indivisible step.
WorkerAdd(w) ==
    /\ workerPc[w] = "add"
    /\ totalSent' = totalSent + 1
    /\ workerPc' = [workerPc EXCEPT ![w] = "select"]
    /\ UNCHANGED <<serverVars, attempts, okPublishes, ctxDone, benchPc, progress,
                   finalTotal>>

\* The duration has passed, or the signal goroutine has called cancel().
CtxDone ==
    /\ ~ctxDone
    /\ ctxDone' = TRUE
    /\ UNCHANGED <<serverVars, workerPc, attempts, okPublishes, totalSent, benchPc,
                   progress, finalTotal>>

\* case <-ticker.C: the progress line with the counter as it is now.
MainTick ==
    /\ benchPc = "loop"
    /\ progress' = totalSent
    /\ UNCHANGED <<serverVars, workerPc, attempts, okPublishes, totalSent, ctxDone,
                   benchPc, finalTotal>>

\* case <-ctx.Done(): break loop
MainLoopExit ==
    /\ benchPc = "loop"
    /\ ctxDone
    /\ benchPc' = "wait"
    /\ UNCHANGED <<serverVars, workerPc, attempts, okPublishes, totalSent, ctxDone,
                   progress, finalTotal>>

\* The final read is made without waiting for the workers.
MainWait_NoWait ==
    /\ benchPc = "wait"
    /\ benchPc' = "load"
    /\ UNCHANGED <<serverVars, workerPc, attempts, okPublishes, totalSent, ctxDone,
                   progress, finalTotal>>

\* wg.Wait() returns: every worker has run its deferred wg.Done().
MainWait ==
    /\ benchPc = "wait"
    /\ \A w \in Workers : workerPc[w] = "exited"
    /\ benchPc' = "load"
    /\ UNCHANGED <<serverVars, workerPc, attempts, okPublishes, totalSent, ctxDone,
                   progress, finalTotal>>

\* sent := atomic.LoadUint64(&totalSent), and the final line with it.
MainPrint ==
    /\ benchPc = "load"
    /\ finalTotal' = totalSent
    /\ benchPc' = "printed"
    /\ UNCHANGED <<serverVars, workerPc, attempts, okPublishes, totalSent, ctxDone,
                   progress>>

BenchNext ==
    \/ \E w \in Workers : WorkerSelect(w)
    \/ \E w \in Workers : WorkerPublish(w)
    \/ \E w \in Workers : WorkerAdd(w)
    \/ CtxDone
    \/ MainTick
    \/ MainLoopExit
    \/ MainWait
    \/ MainPrint

BenchSpec == Init /\ [][BenchNext]_vars


(***************************************************************************)
(* The total of the load generator                                         *)
(***************************************************************************)
RECURSIVE SumOver(_, _)
\* The sum of f over the set S of workers.
SumOver(f, S) ==
    IF S = {} THEN 0
    ELSE LET w == CHOOSE x \in S : TRUE IN f[w] + SumOver(f, S \ {w})

\* The number of publishes that returned without error, over all workers.
Published == SumOver(okPublishes, Workers)

\* C29: whatever the interleaving of the workers, the total of the final
\* line is the number of publishes that returned without error over all
\* workers (a failed publish is not counted and no increment is lost), and
\* the counter is read for it only after every worker has exited. Until
\* then the counter never runs ahead of the successful publishes and lags
\* by at most the workers that are between their publish and their add.
C29_FinalTotal ==
    /\ benchPc = "printed" => finalTotal = Published
    /\ benchPc \in {"load", "printed"} =>
         /\ \A w \in Workers : workerPc[w] = "exited"
         /\ totalSent = Published
    /\ totalSent + Cardinality({w \in Workers : workerPc[w] = "add"}) = Published

\* The final line says 3 after four publishes, one of which failed; both
\* workers published successfully.
C29_Witness ==
    /\ benchPc = "printed"
    /\ finalTotal = MaxPublishes - 1
    /\ attempts = MaxPublishes
    /\ \A w \in Workers : okPublishes[w] >= 1
    /\ \A w \in Workers : workerPc[w] = "exited"

=============================================================================
